---- MODULE Spec2Model ----
(***************************************************************************)
(* A model of the locking and surface-lifetime protocol of package sdl     *)
(* (src/sdl/sdl.go): the process-wide GlobalMutex, the per-Surface         *)
(* sync.RWMutex, the shadow fields that reload() copies from the C struct, *)
(* destroy(), and the single slot currentVideoSurface.                     *)
(*                                                                         *)
(* Every exported call is run by a thread in steps; a step is one lock     *)
(* acquisition, one lock release, one entry into a native (cgo) call or    *)
(* the return of one, together with the Go statements that follow it under *)
(* the same locks.  A thread that waits for a lock stays at the step that  *)
(* acquires it.                                                            *)
(***************************************************************************)
EXTENDS Integers, FiniteSets, Sequences, TLC

\* ------------------------------------------------------------------ bounds
\* Threads; Surface objects a run may create (MaxHandles where only Blit and
\* the factories run, MaxSurfaces where the slot's lifecycle runs, MaxScreen
\* where every call runs); geometries of a C surface.
NThreads == 2
MaxHandles == 4
MaxSurfaces == 3
MaxScreen == 2
NGeom == 2
MaxModes == 3
MaxListed == 1

Threads == 1..NThreads
Handles == 1..MaxHandles
Geoms == 1..NGeom

\* The nil pointer (Go nil, C NULL) and the zero value of a mutex.
nil == 0
unlocked == 0

VARIABLES
    gm,         \* GlobalMutex: the thread that holds it, or unlocked
    cur,        \* currentVideoSurface: a handle, or nil
    nAlloc,     \* the Surface objects allocated so far are 1..nAlloc
    surf,       \* surf[h]: the fields of Surface h
    mutex,      \* mutex[h]: Surface h's RWMutex, [w: writer or unlocked, r: readers]
    cmem,       \* cmem[p]: the C SDL_Surface at pointer p, [live, geom]
    op,         \* op[t]: the call thread t is in, or "none"
    pc,         \* pc[t]: thread t's position in that call
    self,       \* self[t]: the receiver (Blit: dst)
    other,      \* other[t]: Blit's src
    glob,       \* glob[t]: Blit's local 'global'
    carg,       \* carg[t]: the C pointers handed to the native call in flight
    loc,        \* loc[t]: a local of the call (the native result, the value read)
    ret,        \* ret[t]: what thread t's last call returned
    quota,      \* the number of Surface objects this run may create (a bound)
    modes,      \* what C.SDL_ListModes returns: [ptr, arr], arr the array at ptr
    listed      \* the results ListModes has returned, in order

vars ==
    <<gm, cur, nAlloc, surf, mutex, cmem, op, pc, self, other, glob, carg, loc, ret,
      quota, modes, listed>>
shared == <<gm, cur, nAlloc, surf, mutex, cmem>>

Allocated == 1..nAlloc

\* --------------------------------------------------------- the C struct
\* The fields of the C SDL_Surface at pointer p in geometry g, as the
\* library lays them out: reload() reads exactly these.
CSurface(p, g) ==
    [flags  |-> g,
     format |-> 100 + p,
     w      |-> 320 * g,
     h      |-> 240 * g,
     pitch  |-> 4 * 320 * g,
     pixels |-> 1000 * g + p,
     offset |-> g - 1]

\* --------------------------------------------------------- type Surface
\* The zero value of a Surface (var surface Surface).
ZeroSurface ==
    [cSurface |-> nil, Flags |-> 0, Format |-> nil, W |-> 0, H |-> 0,
     Pitch |-> 0, Pixels |-> nil, Offset |-> 0, gcPixels |-> nil]

\* reload: copy the C struct c into the shadow fields, with Go's conversions.
\* Every conversion is between types of one width (Uint32 to uint32, int to
\* int32, Uint16 to uint16); only Pitch's is narrow enough to write out.
reload(s, c) ==
    [s EXCEPT !.Flags  = c.flags,
              !.Format = c.format,
              !.W      = c.w,
              !.H      = c.h,
              !.Pitch  = c.pitch % 65536,
              !.Pixels = c.pixels,
              !.Offset = c.offset]

\* SetCSurface: store the pointer, then reload from the struct c it points to.
SetCSurface(s, p, c) == reload([s EXCEPT !.cSurface = p], c)

\* A destroy that leaves gcPixels as it is.
destroy_KeepBuffer(s) == [s EXCEPT !.cSurface = nil, !.Format = nil, !.Pixels = nil]

\* destroy: exactly the four assignments of the source.
destroy(s) ==
    [s EXCEPT !.cSurface = nil, !.Format = nil, !.Pixels = nil, !.gcPixels = nil]

\* wrap: nil for a NULL pointer, else a new Surface (the next object).
wrap(p) == IF p # nil THEN nAlloc + 1 ELSE nil

\* wrap's effect on the heap of Surface objects; g is the geometry of *p.
WrapEffect(p, g) ==
    IF p # nil
    THEN /\ surf' = [surf EXCEPT ![nAlloc + 1] = SetCSurface(ZeroSurface, p, CSurface(p, g))]
         /\ nAlloc' = nAlloc + 1
    ELSE UNCHANGED <<surf, nAlloc>>

\* ----------------------------------------------------------- the locks
\* sync.Mutex
GLockable == gm = unlocked
GLock(t) == GLockable /\ gm' = t
GUnlock(t) == gm' = unlocked

\* An RLock that waits for nobody, and an Unlock that also gives up the
\* caller's shared holds.
RLockable_Always(h) == TRUE
MUnlock_All(t, h) ==
    mutex' = [x \in Handles |->
                [w |-> IF x = h THEN unlocked ELSE mutex[x].w, r |-> mutex[x].r \ {t}]]

\* An RUnlock that releases nothing.
MRUnlock_Keep(t, h) == UNCHANGED mutex

\* sync.RWMutex: Lock waits for the writer and all readers, RLock for the writer.
WLockable(h) == mutex[h].w = unlocked /\ mutex[h].r = {}
RLockable(h) == mutex[h].w = unlocked
MLock(t, h) == WLockable(h) /\ mutex' = [mutex EXCEPT ![h].w = t]
MUnlock(t, h) == mutex' = [mutex EXCEPT ![h].w = unlocked]
MRLock(t, h) == RLockable(h) /\ mutex' = [mutex EXCEPT ![h].r = @ \cup {t}]
MRUnlock(t, h) == mutex' = [mutex EXCEPT ![h].r = @ \ {t}]

\* ------------------------------------------------------ thread plumbing
At(t, o, stage) == op[t] = o /\ pc[t] = stage

\* The factories in flight: each will need one Surface object.
FactoryOps ==
    {"SetVideoMode", "CreateRGBSurface", "CreateRGBSurfaceFrom", "DisplayFormat",
     "DisplayFormatAlpha", "Zoom"}
InFactory == {u \in Threads : op[u] \in FactoryOps /\ pc[u] # "panic"}
CanAllocate == nAlloc + Cardinality(InFactory) < quota

\* thread t calls o on receiver s (and source x), and stands before its first step
Call(t, o, stage, s, x) ==
    /\ pc[t] = "idle"
    /\ op' = [op EXCEPT ![t] = o]
    /\ pc' = [pc EXCEPT ![t] = stage]
    /\ self' = [self EXCEPT ![t] = s]
    /\ other' = [other EXCEPT ![t] = x]
    /\ ret' = [ret EXCEPT ![t] = <<>>]
    /\ UNCHANGED <<glob, carg, loc, quota, modes, listed>>

\* thread t moves on inside its call
Goto(t, stage) ==
    /\ pc' = [pc EXCEPT ![t] = stage]
    /\ UNCHANGED <<op, self, other, ret, glob, carg, loc, quota, modes, listed>>

\* thread t enters a native call with the C arguments args
EnterNative(t, args) ==
    /\ pc' = [pc EXCEPT ![t] = "native"]
    /\ carg' = [carg EXCEPT ![t] = args]
    /\ UNCHANGED <<op, self, other, ret, glob, loc, quota, modes, listed>>

\* the native call of thread t returns; v is kept in a local
LeaveNative(t, stage, v) ==
    /\ pc' = [pc EXCEPT ![t] = stage]
    /\ carg' = [carg EXCEPT ![t] = <<>>]
    /\ loc' = [loc EXCEPT ![t] = v]
    /\ UNCHANGED <<op, self, other, ret, glob, quota, modes, listed>>

\* What ret keeps of a call that returns no Surface (a status, a bool, nothing).
NoValue == <<>>

\* the call of thread t returns r
Return(t, r) ==
    /\ op' = [op EXCEPT ![t] = "none"]
    /\ pc' = [pc EXCEPT ![t] = "idle"]
    /\ self' = [self EXCEPT ![t] = nil]
    /\ other' = [other EXCEPT ![t] = nil]
    /\ glob' = [glob EXCEPT ![t] = FALSE]
    /\ carg' = [carg EXCEPT ![t] = <<>>]
    /\ loc' = [loc EXCEPT ![t] = nil]
    /\ ret' = [ret EXCEPT ![t] = r]
    /\ UNCHANGED <<quota, modes, listed>>

\* ------------------------------------------------------------ ListModes
\* Pointers are PtrSpace wide: the all-ones pointer is (SDL_Rect **)-1.
PtrSpace == 65536
AllOnes == PtrSpace - 1

\* The SDL_Rect records the library may point to (Sint16 x, y; Uint16 w, h).
CRects ==
    <<[x |-> -32768, y |-> 0, w |-> 640, h |-> 480],
      [x |-> 0, y |-> 32767, w |-> 65535, h |-> 1],
      [x |-> 16, y |-> -1, w |-> 0, h |-> 65535],
      [x |-> -1, y |-> 8, w |-> 1, h |-> 0]>>
RectPtrs == 1..Len(CRects)

\* Go's conversions int16(v) and uint16(v).
int16(v) == ((v + 32768) % 65536) - 32768
uint16(v) == v % 65536

\* What SDL_ListModes may return: NULL, (SDL_Rect **)-1, or the address of
\* an array of n non-NULL SDL_Rect pointers followed by NULL.
ModesBase == 4096
ArraysOf(n) == [1..n -> RectPtrs]
NullModes == [ptr |-> nil, arr |-> <<>>]
AnyModes == [ptr |-> AllOnes, arr |-> <<>>]
ModeInputs ==
    {NullModes, AnyModes}
      \cup {[ptr |-> ModesBase, arr |-> a \o <<nil>>] :
                a \in UNION {ArraysOf(n) : n \in 0..MaxModes}}

\* A Go slice of Rect: the nil slice, or a slice with the elements elems.
NilSlice == [isNil |-> TRUE, elems |-> <<>>]
MakeSlice(e) == [isNil |-> FALSE, elems |-> e]

\* A counting loop that looks at the first pointer only.
CountModes_FirstOnly(arr, count) == IF arr[1] = nil THEN 0 ELSE 1

\* The counting loop: count++ until the pointer at modes + count is nil.
RECURSIVE CountModes(_, _)
CountModes(arr, count) ==
    IF arr[count + 1] = nil THEN count ELSE CountModes(arr, count + 1)

\* ret[i] of the copying loop, from the SDL_Rect r.
GoRect(r) == [X |-> int16(r.x), Y |-> int16(r.y), W |-> uint16(r.w), H |-> uint16(r.h)]

\* The value ListModes returns when SDL_ListModes returns m.
ListModesOf(m) ==
    IF m.ptr = nil
    THEN MakeSlice(<<>>)
    ELSE IF (m.ptr + 1) % PtrSpace = 0
         THEN NilSlice
         ELSE LET count == CountModes(m.arr, 0)
              IN  MakeSlice([i \in 1..count |-> GoRect(CRects[m.arr[i]])])

\* ---------------------------------------------------------------- Init
StartWith(n, m) ==
    /\ quota = n
    /\ modes = m
    /\ listed = <<>>
    /\ gm = unlocked
    /\ cur = nil
    /\ nAlloc = 0
    /\ surf = [h \in Handles |-> ZeroSurface]
    /\ mutex = [h \in Handles |-> [w |-> unlocked, r |-> {}]]
    /\ cmem = [p \in Handles |-> [live |-> FALSE, geom |-> 1]]
    /\ op = [t \in Threads |-> "none"]
    /\ pc = [t \in Threads |-> "idle"]
    /\ self = [t \in Threads |-> nil]
    /\ other = [t \in Threads |-> nil]
    /\ glob = [t \in Threads |-> FALSE]
    /\ carg = [t \in Threads |-> <<>>]
    /\ loc = [t \in Threads |-> nil]
    /\ ret = [t \in Threads |-> <<>>]

\* The start of a run in which SDL_ListModes has no modes to report.
Start(n) == StartWith(n, NullModes)

\* ------------------------------------------------------------- General
\* func Init: a call that only takes GlobalMutex around its native call.
InitSDL(t) ==
    \/ /\ Call(t, "Init", "glock", nil, nil)
       /\ UNCHANGED shared
    \/ /\ At(t, "Init", "glock")
       /\ GLock(t)
       /\ EnterNative(t, <<>>)
       /\ UNCHANGED <<cur, nAlloc, surf, mutex, cmem>>
    \/ /\ At(t, "Init", "native")
       /\ LeaveNative(t, "gunlock", nil)
       /\ UNCHANGED shared
    \/ /\ At(t, "Init", "gunlock")
       /\ GUnlock(t)
       /\ Return(t, NoValue)
       /\ UNCHANGED <<cur, nAlloc, surf, mutex, cmem>>

\* A Quit that destroys the occupant and forgets to clear the slot.
QuitSlot_Keep == cur

\* A Quit that clears the slot and destroys nothing.
QuitSurf_Keep == surf

\* The slot after Quit's if-block, and the occupant it destroys.
QuitSlot == nil
QuitSurf == IF cur # nil THEN [surf EXCEPT ![cur] = destroy(@)] ELSE surf

\* func Quit
Quit(t) ==
    \/ /\ Call(t, "Quit", "glock", nil, nil)
       /\ UNCHANGED shared
    \/ /\ At(t, "Quit", "glock")
       /\ GLock(t)
       /\ Goto(t, "destroy")
       /\ UNCHANGED <<cur, nAlloc, surf, mutex, cmem>>
    \/ /\ At(t, "Quit", "destroy")
       /\ surf' = QuitSurf
       /\ cur' = QuitSlot
       /\ EnterNative(t, <<>>)
       /\ UNCHANGED <<gm, nAlloc, mutex, cmem>>
    \/ /\ At(t, "Quit", "native")
       /\ LeaveNative(t, "gunlock", nil)
       /\ UNCHANGED shared
    \/ /\ At(t, "Quit", "gunlock")
       /\ GUnlock(t)
       /\ Return(t, NoValue)
       /\ UNCHANGED <<cur, nAlloc, surf, mutex, cmem>>

\* --------------------------------------------------------------- Video
\* The pointers a surface-creating native call may return: NULL, or a new
\* C surface.
NativeResults == {nil, nAlloc + 1}

\* the native call creates the C surface at p (nothing for NULL)
NativeCreate(p) ==
    IF p # nil
    THEN cmem' = [cmem EXCEPT ![p] = [live |-> TRUE, geom |-> 1]]
    ELSE UNCHANGED cmem

\* func SetVideoMode; the return statement reads the slot after the unlock.
SetVideoMode(t) ==
    \/ /\ CanAllocate
       /\ Call(t, "SetVideoMode", "glock", nil, nil)
       /\ UNCHANGED shared
    \/ /\ At(t, "SetVideoMode", "glock")
       /\ GLock(t)
       /\ EnterNative(t, <<>>)
       /\ UNCHANGED <<cur, nAlloc, surf, mutex, cmem>>
    \/ /\ At(t, "SetVideoMode", "native")
       /\ \E screen \in NativeResults :
            /\ NativeCreate(screen)
            /\ cur' = wrap(screen)
            /\ WrapEffect(screen, 1)
            /\ LeaveNative(t, "gunlock", wrap(screen))
       /\ UNCHANGED <<gm, mutex>>
    \/ /\ At(t, "SetVideoMode", "gunlock")
       /\ GUnlock(t)
       /\ Goto(t, "ret")
       /\ UNCHANGED <<cur, nAlloc, surf, mutex, cmem>>
    \/ /\ At(t, "SetVideoMode", "ret")
       /\ Return(t, <<"SetVideoMode", cur>>)
       /\ UNCHANGED shared

\* func GetVideoSurface
GetVideoSurface(t) ==
    \/ /\ Call(t, "GetVideoSurface", "glock", nil, nil)
       /\ UNCHANGED shared
    \/ /\ At(t, "GetVideoSurface", "glock")
       /\ GLock(t)
       /\ pc' = [pc EXCEPT ![t] = "gunlock"]
       /\ loc' = [loc EXCEPT ![t] = cur]
       /\ UNCHANGED <<cur, nAlloc, surf, mutex, cmem, op, self, other, glob, carg, ret, quota, modes, listed>>
    \/ /\ At(t, "GetVideoSurface", "gunlock")
       /\ GUnlock(t)
       /\ Return(t, <<"GetVideoSurface", loc[t]>>)
       /\ UNCHANGED <<cur, nAlloc, surf, mutex, cmem>>

\* func CreateRGBSurface: the native call under GlobalMutex, wrap after it.
CreateRGBSurface(t) ==
    \/ /\ CanAllocate
       /\ Call(t, "CreateRGBSurface", "glock", nil, nil)
       /\ UNCHANGED shared
    \/ /\ At(t, "CreateRGBSurface", "glock")
       /\ GLock(t)
       /\ EnterNative(t, <<>>)
       /\ UNCHANGED <<cur, nAlloc, surf, mutex, cmem>>
    \/ /\ At(t, "CreateRGBSurface", "native")
       /\ \E p \in NativeResults :
            /\ NativeCreate(p)
            /\ WrapEffect(p, 1)
            /\ GUnlock(t)
            /\ Return(t, <<"CreateRGBSurface", wrap(p)>>)
       /\ UNCHANGED <<cur, mutex>>

\* A Free that never clears the slot, and one that clears it whatever it frees.
FreeSlot_Never(h) == cur
FreeSlot_Always(h) == nil

\* A Free with its test inverted.
FreeSlot_Inverted(h) == IF h = cur THEN cur ELSE nil

\* The slot after Free of handle h.
FreeSlot(h) == IF h = cur THEN nil ELSE cur

\* SDL_FreeSurface(p)
NativeFree(p) ==
    IF p # nil
    THEN cmem' = [cmem EXCEPT ![p].live = FALSE]
    ELSE UNCHANGED cmem

\* func (screen *Surface) Free
Free(t) ==
    \/ /\ \E h \in Allocated : Call(t, "Free", "glock", h, nil)
       /\ UNCHANGED shared
    \/ /\ At(t, "Free", "glock")
       /\ GLock(t)
       /\ Goto(t, "wlock")
       /\ UNCHANGED <<cur, nAlloc, surf, mutex, cmem>>
    \/ /\ At(t, "Free", "wlock")
       /\ MLock(t, self[t])
       /\ EnterNative(t, <<surf[self[t]].cSurface>>)
       /\ UNCHANGED <<gm, cur, nAlloc, surf, cmem>>
    \/ /\ At(t, "Free", "native")
       /\ NativeFree(carg[t][1])
       /\ surf' = [surf EXCEPT ![self[t]] = destroy(@)]
       /\ cur' = FreeSlot(self[t])
       /\ LeaveNative(t, "wunlock", nil)
       /\ UNCHANGED <<gm, nAlloc, mutex>>
    \/ /\ At(t, "Free", "wunlock")
       /\ MUnlock(t, self[t])
       /\ Goto(t, "gunlock")
       /\ UNCHANGED <<gm, cur, nAlloc, surf, cmem>>
    \/ /\ At(t, "Free", "gunlock")
       /\ GUnlock(t)
       /\ Return(t, NoValue)
       /\ UNCHANGED <<cur, nAlloc, surf, mutex, cmem>>

\* -------------------------------------------------------------- Events
\* What SDL_PollEvent reports: no event, a VIDEORESIZE event, another event.
PollResults == {"none", "VIDEORESIZE", "other"}

\* The library resizes the display's C surface when it delivers VIDEORESIZE.
NativeResize(ev, g) ==
    IF ev = "VIDEORESIZE" /\ cur # nil /\ surf[cur].cSurface # nil
    THEN cmem' = [cmem EXCEPT ![surf[cur].cSurface].geom = g]
    ELSE UNCHANGED cmem

\* A poll that never reloads.
PollReloads_Never(ev) == FALSE

\* if ret != 0 { if event.Type == VIDEORESIZE && currentVideoSurface != nil { reload } }
PollReloads(ev) == ev # "none" /\ ev = "VIDEORESIZE" /\ cur # nil

\* func (event *Event) poll; a reload through a nil cSurface is a nil dereference.
poll(t) ==
    \/ /\ Call(t, "poll", "glock", nil, nil)
       /\ UNCHANGED shared
    \/ /\ At(t, "poll", "glock")
       /\ GLock(t)
       /\ EnterNative(t, <<>>)
       /\ UNCHANGED <<cur, nAlloc, surf, mutex, cmem>>
    \/ /\ At(t, "poll", "native")
       /\ \E ev \in PollResults, g \in Geoms :
            /\ NativeResize(ev, g)
            /\ IF PollReloads(ev)
               THEN IF surf[cur].cSurface # nil
                    THEN /\ surf' = [surf EXCEPT ![cur] =
                                        reload(@, CSurface(@.cSurface, cmem'[@.cSurface].geom))]
                         /\ LeaveNative(t, "gunlock", ev)
                    ELSE /\ UNCHANGED surf
                         /\ LeaveNative(t, "panic", ev)
               ELSE /\ UNCHANGED surf
                    /\ LeaveNative(t, "gunlock", ev)
       /\ UNCHANGED <<gm, cur, nAlloc, mutex>>
    \/ /\ At(t, "poll", "gunlock")
       /\ GUnlock(t)
       /\ Return(t, NoValue)
       /\ UNCHANGED <<cur, nAlloc, surf, mutex, cmem>>

\* ---------------------------------------------------------------- Blit
\* Blits that test one participant only, and one that never unlocks.
IsGlobalBlit_DstOnly(dst, src) == dst = cur
IsGlobalBlit_SrcOnly(dst, src) == src = cur
IsGlobalBlit_Always(dst, src) == TRUE

\* (src != currentVideoSurface) && (dst != currentVideoSurface) is false
IsGlobalBlit(dst, src) == ~((src # cur) /\ (dst # cur))

\* func (dst *Surface) Blit
BlitBody(t) ==
    \/ /\ At(t, "Blit", "glock")
       /\ GLock(t)
       /\ pc' = [pc EXCEPT ![t] = "check"]
       /\ glob' = [glob EXCEPT ![t] = TRUE]
       /\ UNCHANGED <<cur, nAlloc, surf, mutex, cmem, op, self, other, carg, loc, ret, quota, modes, listed>>
    \/ /\ At(t, "Blit", "check")
       /\ IF IsGlobalBlit(self[t], other[t])
          THEN UNCHANGED <<gm, glob>>
          ELSE GUnlock(t) /\ glob' = [glob EXCEPT ![t] = FALSE]
       /\ pc' = [pc EXCEPT ![t] = "rlock"]
       /\ UNCHANGED <<cur, nAlloc, surf, mutex, cmem, op, self, other, carg, loc, ret, quota, modes, listed>>
    \/ /\ At(t, "Blit", "rlock")
       /\ MRLock(t, other[t])
       /\ Goto(t, "wlock")
       /\ UNCHANGED <<gm, cur, nAlloc, surf, cmem>>
    \/ /\ At(t, "Blit", "wlock")
       /\ MLock(t, self[t])
       /\ EnterNative(t, <<surf[other[t]].cSurface, surf[self[t]].cSurface>>)
       /\ UNCHANGED <<gm, cur, nAlloc, surf, cmem>>
    \/ /\ At(t, "Blit", "native")
       /\ LeaveNative(t, "wunlock", 0)
       /\ UNCHANGED shared
    \/ /\ At(t, "Blit", "wunlock")
       /\ MUnlock(t, self[t])
       /\ Goto(t, "runlock")
       /\ UNCHANGED <<gm, cur, nAlloc, surf, cmem>>
    \/ /\ At(t, "Blit", "runlock")
       /\ glob[t]
       /\ MRUnlock(t, other[t])
       /\ Goto(t, "gunlock")
       /\ UNCHANGED <<gm, cur, nAlloc, surf, cmem>>
    \/ /\ At(t, "Blit", "runlock")
       /\ ~glob[t]
       /\ MRUnlock(t, other[t])
       /\ Return(t, NoValue)
       /\ UNCHANGED <<gm, cur, nAlloc, surf, cmem>>
    \/ /\ At(t, "Blit", "gunlock")
       /\ GUnlock(t)
       /\ Return(t, NoValue)
       /\ UNCHANGED <<cur, nAlloc, surf, mutex, cmem>>

Blit(t) ==
    \/ /\ \E dst \in Allocated, src \in Allocated : Call(t, "Blit", "glock", dst, src)
       /\ UNCHANGED shared
    \/ BlitBody(t)

\* func BlitSurface(src, srcrect, dst, dstrect): return dst.Blit(dstrect, src, srcrect)
BlitSurface(t) ==
    /\ \E src \in Allocated, dst \in Allocated : Call(t, "Blit", "glock", dst, src)
    /\ UNCHANGED shared

\* ------------------------------------------------- per-surface calls
\* Calls that hold the surface's lock exclusively around one native call:
\* mutex.Lock(); C.f(s.cSurface, ...); mutex.Unlock()
ExclusiveCall(t, name) ==
    \/ /\ \E h \in Allocated : Call(t, name, "wlock", h, nil)
       /\ UNCHANGED shared
    \/ /\ At(t, name, "wlock")
       /\ MLock(t, self[t])
       /\ EnterNative(t, <<surf[self[t]].cSurface>>)
       /\ UNCHANGED <<gm, cur, nAlloc, surf, cmem>>
    \/ /\ At(t, name, "native")
       /\ LeaveNative(t, "wunlock", 0)
       /\ UNCHANGED shared
    \/ /\ At(t, name, "wunlock")
       /\ MUnlock(t, self[t])
       /\ Return(t, NoValue)
       /\ UNCHANGED <<gm, cur, nAlloc, surf, cmem>>

FillRect(t) == ExclusiveCall(t, "FillRect")
SetAlpha(t) == ExclusiveCall(t, "SetAlpha")
SetColorKey(t) == ExclusiveCall(t, "SetColorKey")
SetClipRect(t) == ExclusiveCall(t, "SetClipRect")
Lock(t) == ExclusiveCall(t, "Lock")
Unlock(t) == ExclusiveCall(t, "Unlock")

\* func (s *Surface) GetClipRect: the lock in shared mode
GetClipRect(t) ==
    \/ /\ \E h \in Allocated : Call(t, "GetClipRect", "rlock", h, nil)
       /\ UNCHANGED shared
    \/ /\ At(t, "GetClipRect", "rlock")
       /\ MRLock(t, self[t])
       /\ EnterNative(t, <<surf[self[t]].cSurface>>)
       /\ UNCHANGED <<gm, cur, nAlloc, surf, cmem>>
    \/ /\ At(t, "GetClipRect", "native")
       /\ LeaveNative(t, "runlock", 0)
       /\ UNCHANGED shared
    \/ /\ At(t, "GetClipRect", "runlock")
       /\ MRUnlock(t, self[t])
       /\ Return(t, NoValue)
       /\ UNCHANGED <<gm, cur, nAlloc, surf, cmem>>

\* func (s *Surface) DisplayFormat / DisplayFormatAlpha: the native call under
\* the shared lock, wrap of its result after the unlock.  The library
\* converts nothing from a NULL surface.
ConvertResults(p) == IF p = nil THEN {nil} ELSE NativeResults

ConvertCall(t, name) ==
    \/ /\ CanAllocate
       /\ \E h \in Allocated : Call(t, name, "rlock", h, nil)
       /\ UNCHANGED shared
    \/ /\ At(t, name, "rlock")
       /\ MRLock(t, self[t])
       /\ EnterNative(t, <<surf[self[t]].cSurface>>)
       /\ UNCHANGED <<gm, cur, nAlloc, surf, cmem>>
    \/ /\ At(t, name, "native")
       /\ \E p \in ConvertResults(carg[t][1]) :
            /\ NativeCreate(p)
            /\ LeaveNative(t, "runlock", p)
       /\ UNCHANGED <<gm, cur, nAlloc, surf, mutex>>
    \/ /\ At(t, name, "runlock")
       /\ MRUnlock(t, self[t])
       /\ WrapEffect(loc[t], 1)
       /\ Return(t, <<name, wrap(loc[t])>>)
       /\ UNCHANGED <<gm, cur, cmem>>

DisplayFormat(t) == ConvertCall(t, "DisplayFormat")
DisplayFormatAlpha(t) == ConvertCall(t, "DisplayFormatAlpha")

\* Calls on the screen that take GlobalMutex, then the surface's lock
\* exclusively: Flip, UpdateRect, UpdateRects.
ScreenCall(t, name) ==
    \/ /\ \E h \in Allocated : Call(t, name, "glock", h, nil)
       /\ UNCHANGED shared
    \/ /\ At(t, name, "glock")
       /\ GLock(t)
       /\ Goto(t, "wlock")
       /\ UNCHANGED <<cur, nAlloc, surf, mutex, cmem>>
    \/ /\ At(t, name, "wlock")
       /\ MLock(t, self[t])
       /\ EnterNative(t, <<surf[self[t]].cSurface>>)
       /\ UNCHANGED <<gm, cur, nAlloc, surf, cmem>>
    \/ /\ At(t, name, "native")
       /\ LeaveNative(t, "wunlock", 0)
       /\ UNCHANGED shared
    \/ /\ At(t, name, "wunlock")
       /\ MUnlock(t, self[t])
       /\ Goto(t, "gunlock")
       /\ UNCHANGED <<gm, cur, nAlloc, surf, cmem>>
    \/ /\ At(t, name, "gunlock")
       /\ GUnlock(t)
       /\ Return(t, NoValue)
       /\ UNCHANGED <<cur, nAlloc, surf, mutex, cmem>>

Flip(t) == ScreenCall(t, "Flip")
UpdateRect(t) == ScreenCall(t, "UpdateRect")

\* func (screen *Surface) UpdateRects: nothing at all for an empty rects
UpdateRects(t) ==
    \/ /\ pc[t] = "idle"
       /\ Return(t, NoValue)
       /\ UNCHANGED shared
    \/ ScreenCall(t, "UpdateRects")

\* func (src *Surface) SaveBMP: GlobalMutex only, the surface's lock not taken
SaveBMP(t) ==
    \/ /\ \E h \in Allocated : Call(t, "SaveBMP", "glock", h, nil)
       /\ UNCHANGED shared
    \/ /\ At(t, "SaveBMP", "glock")
       /\ GLock(t)
       /\ EnterNative(t, <<surf[self[t]].cSurface>>)
       /\ UNCHANGED <<cur, nAlloc, surf, mutex, cmem>>
    \/ /\ At(t, "SaveBMP", "native")
       /\ LeaveNative(t, "gunlock", 0)
       /\ UNCHANGED shared
    \/ /\ At(t, "SaveBMP", "gunlock")
       /\ GUnlock(t)
       /\ Return(t, NoValue)
       /\ UNCHANGED <<cur, nAlloc, surf, mutex, cmem>>

\* The values a caller may pass as pixels, by the reflect.Kind of each, and
\* the kinds the switch accepts.
PixelKind == <<"slice", "slice", "ptr", "unsafe.Pointer", "int">>
PixelValues == 1..Len(PixelKind)

\* A switch that also accepts an int.
SupportedKinds_AlsoInt == {"ptr", "unsafe.Pointer", "slice", "int"}

\* case reflect.Ptr, reflect.UnsafePointer, reflect.Slice
SupportedKinds == {"ptr", "unsafe.Pointer", "slice"}

\* What a panicking call leaves: panic(msg), and the runtime's panic at
\* s.gcPixels = pixels with s nil.
PanicText(k) == <<"panic", "Don't know how to handle type: ", k>>
NilDereference == <<"panic", "invalid memory address or nil pointer dereference">>

\* func CreateRGBSurfaceFrom: the switch on the kind of pixels, the native
\* call under GlobalMutex, then wrap and s.gcPixels = pixels with no test of s.
CreateRGBSurfaceFrom(t) ==
    \/ /\ CanAllocate
       /\ pc[t] = "idle"
       /\ \E v \in PixelValues : loc' = [loc EXCEPT ![t] = v]
       /\ op' = [op EXCEPT ![t] = "CreateRGBSurfaceFrom"]
       /\ pc' = [pc EXCEPT ![t] = "kind"]
       /\ ret' = [ret EXCEPT ![t] = <<>>]
       /\ UNCHANGED <<shared, self, other, glob, carg, quota, modes, listed>>
    \/ /\ At(t, "CreateRGBSurfaceFrom", "kind")
       /\ PixelKind[loc[t]] \in SupportedKinds
       /\ Goto(t, "glock")
       /\ UNCHANGED shared
    \/ /\ At(t, "CreateRGBSurfaceFrom", "kind")
       /\ PixelKind[loc[t]] \notin SupportedKinds
       /\ pc' = [pc EXCEPT ![t] = "panic"]
       /\ ret' = [ret EXCEPT ![t] = PanicText(PixelKind[loc[t]])]
       /\ UNCHANGED <<shared, op, self, other, glob, carg, loc, quota, modes, listed>>
    \/ /\ At(t, "CreateRGBSurfaceFrom", "glock")
       /\ GLock(t)
       /\ EnterNative(t, <<>>)
       /\ UNCHANGED <<cur, nAlloc, surf, mutex, cmem>>
    \/ /\ At(t, "CreateRGBSurfaceFrom", "native")
       /\ \E p \in NativeResults \ {nil} :
            /\ NativeCreate(p)
            /\ GUnlock(t)
            /\ surf' = [surf EXCEPT ![wrap(p)] =
                           [SetCSurface(ZeroSurface, p, CSurface(p, 1))
                              EXCEPT !.gcPixels = loc[t]]]
            /\ nAlloc' = nAlloc + 1
            /\ Return(t, <<"CreateRGBSurfaceFrom", wrap(p)>>)
       /\ UNCHANGED <<cur, mutex>>
    \/ /\ At(t, "CreateRGBSurfaceFrom", "native")
       /\ nil \in NativeResults
       /\ GUnlock(t)
       /\ pc' = [pc EXCEPT ![t] = "panic"]
       /\ carg' = [carg EXCEPT ![t] = <<>>]
       /\ ret' = [ret EXCEPT ![t] = NilDereference]
       /\ UNCHANGED <<cur, nAlloc, surf, mutex, cmem, op, self, other, glob, loc,
                      quota, modes, listed>>

\* func (s *Surface) Zoom (gfx.go): s.cSurface is read and handed to
\* zoomSurface with no lock held; wrap of the result.
Zoom(t) ==
    \/ /\ CanAllocate
       /\ \E h \in Allocated : Call(t, "Zoom", "call", h, nil)
       /\ UNCHANGED shared
    \/ /\ At(t, "Zoom", "call")
       /\ EnterNative(t, <<surf[self[t]].cSurface>>)
       /\ UNCHANGED shared
    \/ /\ At(t, "Zoom", "native")
       /\ \E p \in ConvertResults(carg[t][1]) :
            /\ NativeCreate(p)
            /\ WrapEffect(p, 1)
            /\ Return(t, <<"Zoom", wrap(p)>>)
       /\ UNCHANGED <<gm, cur, mutex>>

\* func ListModes: no lock; the result is decoded from what the native
\* call returned.
ListModes(t) ==
    /\ pc[t] = "idle"
    /\ Len(listed) < MaxListed
    /\ listed' = Append(listed, ListModesOf(modes))
    /\ UNCHANGED <<gm, cur, nAlloc, surf, mutex, cmem, op, pc, self, other, glob,
                   carg, loc, ret, quota, modes>>

\* ------------------------------------------------------ specifications
\* Every specification starts from the state after package initialisation:
\* no Surface, the slot nil, every lock free, every thread idle.
Init == Start(MaxScreen)
InitLife == Start(MaxSurfaces)
InitBlit == Start(MaxHandles)

\* Every call of the model.
Next ==
    \E t \in Threads :
        \/ InitSDL(t) \/ Quit(t) \/ SetVideoMode(t) \/ GetVideoSurface(t)
        \/ CreateRGBSurface(t) \/ Free(t) \/ poll(t)
        \/ Blit(t) \/ BlitSurface(t)
        \/ FillRect(t) \/ SetAlpha(t) \/ SetColorKey(t) \/ SetClipRect(t)
        \/ Lock(t) \/ Unlock(t) \/ GetClipRect(t)
        \/ DisplayFormat(t) \/ DisplayFormatAlpha(t)
        \/ Flip(t) \/ UpdateRect(t) \/ UpdateRects(t) \/ SaveBMP(t)
        \/ Zoom(t)

Spec == Init /\ [][Next]_vars

\* The calls on a surface made by one thread alone, one call after the
\* other: what a call does to a surface is then what it did when called.
NextSeq ==
    \E t \in {u \in Threads : \A v \in Threads : u <= v} :
        \/ SetVideoMode(t) \/ CreateRGBSurface(t) \/ Free(t) \/ Quit(t)
        \/ Blit(t) \/ FillRect(t) \/ SetAlpha(t) \/ SetColorKey(t)
        \/ SetClipRect(t) \/ Lock(t) \/ Unlock(t) \/ GetClipRect(t)
        \/ DisplayFormat(t) \/ Flip(t) \/ UpdateRect(t) \/ SaveBMP(t)

SpecSeq == InitLife /\ [][NextSeq]_vars

\* The surface lifecycle: creation, the slot, Free, Quit and poll.
NextLife ==
    \E t \in Threads :
        \/ Quit(t) \/ SetVideoMode(t) \/ GetVideoSurface(t)
        \/ CreateRGBSurface(t) \/ Free(t) \/ poll(t)

SpecLife == InitLife /\ [][NextLife]_vars

\* Blit between the surfaces the factories make.
NextBlit ==
    \E t \in Threads :
        \/ SetVideoMode(t) \/ CreateRGBSurface(t)
        \/ Blit(t) \/ BlitSurface(t)

SpecBlit == InitBlit /\ [][NextBlit]_vars

\* A surface in use by one thread while another frees it or Quit runs.
NextUse ==
    \E t \in Threads :
        \/ SetVideoMode(t) \/ CreateRGBSurface(t) \/ Free(t) \/ Quit(t)
        \/ FillRect(t) \/ Zoom(t)

SpecUse == InitLife /\ [][NextUse]_vars

\* The display alone: every Surface of a run is one SetVideoMode returned.
NextVideo ==
    \E t \in Threads :
        \/ SetVideoMode(t) \/ GetVideoSurface(t) \/ Quit(t) \/ poll(t)
        \/ Flip(t)

SpecVideo == InitLife /\ [][NextVideo]_vars

\* ListModes alone, on each value SDL_ListModes may return.
InitModes == \E m \in ModeInputs : StartWith(MaxScreen, m)
NextModes == \E t \in Threads : ListModes(t)

SpecModes == InitModes /\ [][NextModes]_vars

\* Surfaces over caller buffers, among the calls that reload, destroy or
\* use a surface.
NextFrom ==
    \E t \in Threads :
        \/ CreateRGBSurfaceFrom(t) \/ SetVideoMode(t) \/ Free(t) \/ Quit(t)
        \/ poll(t) \/ FillRect(t) \/ Blit(t)

SpecFrom == Init /\ [][NextFrom]_vars

\* ------------------------------------------------- positions and locks
InNative(t) == pc[t] = "native"
InBlit(t) == op[t] = "Blit"

\* The calls that lock GlobalMutex first and unlock it last.
GlobalOps ==
    {"Init", "Quit", "SetVideoMode", "GetVideoSurface", "CreateRGBSurface",
     "Free", "poll", "Flip", "UpdateRect", "UpdateRects", "SaveBMP"}

\* Thread t stands between a GlobalMutex.Lock() and the Unlock() that pairs
\* with it, by its position in the code.
InGlobalCS(t) ==
    \/ op[t] \in GlobalOps /\ pc[t] \notin {"idle", "glock", "ret"}
    \/ InBlit(t) /\ pc[t] = "check"
    \/ InBlit(t) /\ pc[t] \in {"rlock", "wlock", "native", "wunlock", "runlock", "gunlock"}
                 /\ glob[t]

\* The surfaces of thread t's Blit, and whether the display is one of them.
BlitHandles(t) == {self[t], other[t]}
DisplayBlit(t) == InBlit(t) /\ cur # nil /\ cur \in BlitHandles(t)

\* Thread t holds a per-surface lock of its Blit.
HoldsBlitLock(t) == InBlit(t) /\ (t \in mutex[other[t]].r \/ mutex[self[t]].w = t)

\* The surface whose lock thread t takes in shared mode.
SharedTarget(t) == IF InBlit(t) THEN other[t] ELSE self[t]

\* Thread t stands at a lock acquisition that cannot proceed now.
Waiting(t) ==
    \/ pc[t] = "glock" /\ ~GLockable
    \/ pc[t] = "wlock" /\ ~WLockable(self[t])
    \/ pc[t] = "rlock" /\ ~RLockable(SharedTarget(t))

\* Thread u stands at a lock acquisition that waits for a lock thread t holds.
WaitsFor(u, t) ==
    \/ pc[u] = "glock" /\ gm = t
    \/ pc[u] = "wlock" /\ (mutex[self[u]].w = t \/ t \in mutex[self[u]].r)
    \/ pc[u] = "rlock" /\ mutex[SharedTarget(u)].w = t

\* Surface h was created and destroyed: wrap stores no nil pointer.
Destroyed(h) == h \in Allocated /\ surf[h].cSurface = nil

C2_BlitNeverDeadlocks ==
    ~(\A t \in Threads : InBlit(t) /\ Waiting(t))

\* ---------------------------------------------------------------- C3
\* C3: a Blit neither of whose surfaces is the display never acquires
\* GlobalMutex at any point of the call.
C3_PlainBlitSkipsGlobalMutex ==
    \A t \in Threads : InBlit(t) /\ ~DisplayBlit(t) => gm # t

\* ---------------------------------------------------------------- C4
\* The Blits of t and u are over disjoint surfaces, none of them the display.
DisjointPlainBlits(t, u) ==
    /\ InBlit(t) /\ InBlit(u)
    /\ BlitHandles(t) \cap BlitHandles(u) = {}
    /\ ~DisplayBlit(t) /\ ~DisplayBlit(u)

\* C4: of two Blits over disjoint surfaces, none of them the display,
\* neither ever waits for a lock the other holds while the other is in its
\* native call.
C4_DisjointBlitsDoNotBlock ==
    \A t \in Threads, u \in Threads :
        t # u /\ DisjointPlainBlits(t, u) /\ InNative(t) => ~WaitsFor(u, t)

\* Both Blits are in their native calls at the same time.
C4_Witness ==
    \E t \in Threads, u \in Threads :
        t # u /\ DisjointPlainBlits(t, u) /\ InNative(t) /\ InNative(u)

\* ---------------------------------------------------------------- C5
\* The calls on one surface that the claim lists, and those of them that
\* take only the surface's own lock.
SurfaceLockOnlyOps ==
    {"FillRect", "SetAlpha", "SetColorKey", "SetClipRect", "GetClipRect", "Lock", "Unlock"}
ScreenOps == {"Flip", "UpdateRect", "UpdateRects"}

\* Thread t is in the native call of a call on the display surface.
NativeOnDisplay(t, ops) ==
    /\ InNative(t)
    /\ cur # nil
    /\ \/ op[t] \in ops /\ self[t] = cur
       \/ DisplayBlit(t)

\* C5 as stated: every call one of whose participants is the display (Blit,
\* Flip, UpdateRect, FillRect, SetAlpha, SetColorKey, SetClipRect,
\* GetClipRect, Lock, Unlock) runs its native call holding GlobalMutex.
C5_EveryDisplayCallHoldsGlobalMutex ==
    \A t \in Threads :
        NativeOnDisplay(t, ScreenOps \cup SurfaceLockOnlyOps) => gm = t

\* C5 as amended: Blit, Flip, UpdateRect and UpdateRects on the display run
\* their native call holding GlobalMutex, with no other thread inside a
\* GlobalMutex critical section; FillRect, SetAlpha, SetColorKey,
\* SetClipRect, GetClipRect, Lock and Unlock never hold GlobalMutex.
C5_ScreenCallsHoldGlobalMutex ==
    /\ \A t \in Threads :
         NativeOnDisplay(t, ScreenOps)
           => gm = t /\ \A u \in Threads : u # t => ~InGlobalCS(u)
    /\ \A t \in Threads : op[t] \in SurfaceLockOnlyOps => gm # t

\* A Flip of the display is in its native call while SetVideoMode, Quit or
\* poll waits for GlobalMutex.
C5_Witness ==
    \E t \in Threads, u \in Threads :
        /\ t # u
        /\ NativeOnDisplay(t, {"Flip"}) /\ op[t] = "Flip"
        /\ op[u] \in {"SetVideoMode", "Quit", "poll"} /\ pc[u] = "glock"

\* ---------------------------------------------------------------- C6
\* C6: the slot holds nil or one Surface; a SetVideoMode whose native call
\* returns a surface puts the new Surface in the slot (nil when it returns
\* NULL); after that the slot changes only by another SetVideoMode, by Free
\* of the occupant or by Quit, both of which clear it; and GetVideoSurface
\* returns the slot's occupant as it is when the call unlocks.
C6_SlotHoldsLastVideoMode ==
    [][ /\ cur' \in Allocated' \cup {nil}
        /\ \A t \in Threads :
             At(t, "SetVideoMode", "native") /\ pc'[t] # "native"
               => \/ cur' = nil /\ nAlloc' = nAlloc
                  \/ /\ cur' = nAlloc' /\ nAlloc' = nAlloc + 1
                     /\ surf'[cur'].cSurface # nil
        /\ \A t \in Threads :
             At(t, "Quit", "destroy") /\ pc'[t] # "destroy" => cur' = nil
        /\ cur' # cur
             => \E t \in Threads :
                  \/ At(t, "SetVideoMode", "native") /\ pc'[t] # "native"
                  \/ At(t, "Free", "native") /\ self[t] = cur /\ cur' = nil
                  \/ At(t, "Quit", "destroy") /\ cur' = nil
        /\ \A t \in Threads :
             At(t, "GetVideoSurface", "gunlock") /\ pc'[t] = "idle"
               => ret'[t] = <<"GetVideoSurface", cur>>
      ]_vars

\* GetVideoSurface has returned the Surface the last SetVideoMode made.
C6_Witness ==
    \E t \in Threads : cur # nil /\ ret[t] = <<"GetVideoSurface", cur>>

\* ---------------------------------------------------------------- C7
\* C7: the step of Free that follows SDL_FreeSurface runs under GlobalMutex
\* and the surface's lock, destroys the surface, and leaves the slot nil if
\* the freed surface was its occupant and unchanged if not; GlobalMutex
\* stays held and the slot stays so until Free returns.
C7_FreeClearsOccupantOnly ==
    [][ \A t \in Threads :
          op[t] = "Free" =>
            /\ pc[t] = "native" /\ pc'[t] # "native"
                 => /\ gm = t /\ gm' = t /\ mutex[self[t]].w = t
                    /\ surf'[self[t]].cSurface = nil
                    /\ cur' = IF cur = self[t] THEN nil ELSE cur
            /\ pc[t] \in {"wunlock", "gunlock"}
                 => gm = t /\ cur' = cur /\ cur # self[t]
      ]_vars

\* Free of the slot's occupant is in its native call.
C7_Witness ==
    \E t \in Threads : At(t, "Free", "native") /\ cur # nil /\ self[t] = cur

\* ---------------------------------------------------------------- C8
\* C8: Free of an already destroyed surface hands nil to SDL_FreeSurface,
\* leaves every Surface, the slot and the C heap as they were, and does not
\* fault.
C8_FreeIsIdempotent ==
    [][ \A t \in Threads :
          op[t] = "Free" /\ Destroyed(self[t]) =>
            /\ pc[t] = "wlock" /\ pc'[t] # "wlock" => carg'[t] = <<nil>>
            /\ pc[t] = "native" /\ pc'[t] # "native"
                 => surf' = surf /\ cur' = cur /\ cmem' = cmem
            /\ pc'[t] # "panic"
      ]_vars

\* A second Free of a destroyed surface is in its native call while the
\* slot holds a later display surface.
C8_Witness ==
    \E t \in Threads :
        /\ At(t, "Free", "native") /\ Destroyed(self[t])
        /\ cur # nil /\ cur # self[t]

\* ---------------------------------------------------------------- C9
\* C9: a destroyed surface has a nil foreign pointer, every shadow field
\* (Flags, Format, W, H, Pitch, Pixels, Offset) nil or zero, and no retained
\* buffer.
C9_DestroyZeroesShadow ==
    \A h \in Handles : Destroyed(h) => surf[h] = ZeroSurface

\* --------------------------------------------------------------- C10
\* The calls on a surface that hand its foreign pointer to a native call.
HandleOps ==
    {"FillRect", "Blit", "Flip", "UpdateRect", "UpdateRects", "Lock", "Unlock",
     "SetAlpha", "SetColorKey", "SetClipRect", "GetClipRect", "DisplayFormat",
     "DisplayFormatAlpha", "SaveBMP"}

\* C10: a call on a destroyed surface makes no native call with the
\* surface's nil foreign pointer.  (Stated for one thread making all the
\* calls, so that the surface a native call finds destroyed was destroyed
\* when the call was made.)
C10_NoNativeCallOnDestroyed ==
    \A t \in Threads :
        op[t] \in HandleOps /\ InNative(t)
          => \A i \in 1..Len(carg[t]) : carg[t][i] # nil

\* --------------------------------------------------------------- C11
\* Thread t is in the native call of a call on a surface, and the native
\* call was handed the C pointer p.
UsesPointer(t, p) ==
    /\ InNative(t)
    /\ op[t] \in HandleOps \cup {"Zoom"}
    /\ \E i \in 1..Len(carg[t]) : carg[t][i] = p

\* C11: while a native call of a call on a surface is in progress, the C
\* surface it was handed has not been freed and the Surface that held the
\* pointer has not been destroyed.
C11_NoUseAfterFree ==
    \A t \in Threads, p \in Handles :
        UsesPointer(t, p) => cmem[p].live /\ surf[p].cSurface = p

\* --------------------------------------------------------------- C12
\* Quit run by thread t has done its work and still holds GlobalMutex: the
\* state in which it returns.
QuitDone(t) == At(t, "Quit", "gunlock")

\* C12: when Quit returns, every Surface that an earlier SetVideoMode
\* returned is destroyed, also those a later SetVideoMode replaced in the
\* slot.  (Where SetVideoMode alone makes Surfaces, these are all of them.)
C12_QuitDestroysEveryScreen ==
    \A t \in Threads : QuitDone(t) => \A h \in Allocated : Destroyed(h)

\* --------------------------------------------------------------- C13
\* The number of SDL_Rect pointers in the array before its terminator.
ModeCount == Len(modes.arr) - 1

\* C13: every result of ListModes is, for NULL, an empty slice that is not
\* nil; for (SDL_Rect **)-1, the nil slice; for an array of N SDL_Rect
\* pointers and a NULL terminator, a non-nil slice of exactly N Rects, the
\* i-th with the x, y, w and h of the i-th SDL_Rect.
C13_ListModesDecodes ==
    \A k \in 1..Len(listed) :
        LET r == listed[k]
        IN  /\ modes.ptr = nil => ~r.isNil /\ r.elems = <<>>
            /\ modes.ptr = AllOnes => r.isNil /\ r # MakeSlice(<<>>)
            /\ modes.ptr \notin {nil, AllOnes} =>
                 /\ ~r.isNil
                 /\ Len(r.elems) = ModeCount
                 /\ \A i \in 1..ModeCount :
                      LET c == CRects[modes.arr[i]]
                      IN  /\ r.elems[i].X = c.x /\ r.elems[i].Y = c.y
                          /\ r.elems[i].W = c.w /\ r.elems[i].H = c.h

\* ListModes has decoded an array of as many different records as there are.
C13_Witness ==
    /\ listed # <<>>
    /\ modes.ptr = ModesBase
    /\ ModeCount = MaxModes
    /\ \A i \in 1..ModeCount, j \in 1..ModeCount : i # j => modes.arr[i] # modes.arr[j]

\* --------------------------------------------------------------- C14
\* The shapes of pixels the claim names as accepted: pointer, unsafe
\* pointer, slice.
AcceptedShapes == {"ptr", "unsafe.Pointer", "slice"}

\* Thread t is in CreateRGBSurfaceFrom with pixels of no accepted shape.
UnsupportedPixels(t) ==
    op[t] = "CreateRGBSurfaceFrom" /\ PixelKind[loc[t]] \notin AcceptedShapes

\* C14: CreateRGBSurfaceFrom given pixels of an unsupported kind panics with
\* a message that names that kind, in a step that leaves GlobalMutex, the
\* slot, every Surface, every lock and the C heap as they were; it never
\* reaches the acquisition of GlobalMutex or the native call.
C14_UnsupportedKindFailsFirst ==
    [][ \A t \in Threads :
          /\ UnsupportedPixels(t) /\ pc[t] = "kind" /\ pc'[t] # "kind"
               => /\ pc'[t] = "panic"
                  /\ ret'[t] = <<"panic", "Don't know how to handle type: ", PixelKind[loc[t]]>>
                  /\ gm # t
                  /\ shared' = shared
          /\ UnsupportedPixels(t) => pc'[t] \in {"kind", "panic"} /\ gm' # t
      ]_vars

\* CreateRGBSurfaceFrom has panicked over an int.
C14_Witness ==
    \E t \in Threads :
        /\ UnsupportedPixels(t) /\ pc[t] = "panic"
        /\ PixelKind[loc[t]] = "int"

\* --------------------------------------------------------------- C15
\* C15: a factory does not fault: no thread stands at a panic in a factory,
\* but CreateRGBSurfaceFrom over pixels of an unsupported kind.
C15_FactoriesDoNotFault ==
    \A t \in Threads :
        op[t] \in FactoryOps /\ pc[t] = "panic" => UnsupportedPixels(t)

\* --------------------------------------------------------------- C16
\* This step destroys Surface h: Free's after SDL_FreeSurface, or Quit's
\* on the slot's occupant.
DestroyStep(h) ==
    \E t \in Threads :
        \/ At(t, "Free", "native") /\ self[t] = h /\ pc'[t] # "native"
        \/ At(t, "Quit", "destroy") /\ cur = h /\ pc'[t] # "destroy"

\* C16: CreateRGBSurfaceFrom returns a Surface whose gcPixels is the pixels
\* it was given; gcPixels of a Surface changes in no step but one that
\* destroys the Surface, which sets it to nil; and gcPixels of a destroyed
\* Surface stays nil.
C16_BufferRetainedUntilDestroy ==
    [][ /\ \A t \in Threads :
             At(t, "CreateRGBSurfaceFrom", "native") /\ pc'[t] = "idle"
               => /\ ret'[t] = <<"CreateRGBSurfaceFrom", nAlloc'>>
                  /\ surf'[nAlloc'].gcPixels = loc[t]
                  /\ surf'[nAlloc'].cSurface # nil
        /\ \A h \in Allocated :
             /\ surf'[h].gcPixels # surf[h].gcPixels
                  => DestroyStep(h) /\ surf'[h].gcPixels = nil
             /\ DestroyStep(h) => surf'[h].gcPixels = nil /\ surf'[h].cSurface = nil
             /\ surf[h].cSurface # nil /\ surf'[h].cSurface # nil
                  => surf'[h].gcPixels = surf[h].gcPixels
      ]_vars

\* poll reloads the display while a Surface over a caller buffer is in the
\* native call of FillRect, its buffer retained.
C16_Witness ==
    \E t \in Threads, u \in Threads :
        /\ At(t, "FillRect", "native")
        /\ surf[self[t]].gcPixels # nil
        /\ At(u, "poll", "native")
        /\ cur # nil

\* --------------------------------------------------------------- C17
\* Thread t holds the lock of its Blit's source in shared mode, of its
\* Blit's destination in exclusive mode.
HoldsSrc(t) == t \in mutex[other[t]].r
HoldsDst(t) == mutex[self[t]].w = t

\* C17 as stated: the destination's lock is taken first and released last,
\* so a Blit that holds its source's lock holds its destination's lock.
C17_DstLockedFirst ==
    \A t \in Threads : InBlit(t) /\ HoldsSrc(t) => HoldsDst(t)

\* C17 as amended: the source's lock is taken first, in shared mode, and the
\* destination's lock second, in exclusive mode; the destination's is
\* released first and the source's last.  By position: neither is held
\* before the first acquisition and after the last release, the source's
\* alone between the acquisitions and between the releases, both around the
\* native call.
C17_SrcLockedFirst ==
    \A t \in Threads :
        InBlit(t) =>
          /\ pc[t] \in {"glock", "check", "rlock", "gunlock"} => ~HoldsSrc(t) /\ ~HoldsDst(t)
          /\ pc[t] \in {"wlock", "runlock"} => HoldsSrc(t) /\ ~HoldsDst(t)
          /\ pc[t] \in {"native", "wunlock"} => HoldsSrc(t) /\ HoldsDst(t)

\* A Blit between two surfaces has released its destination and still holds
\* its source.
C17_Witness ==
    \E t \in Threads :
        At(t, "Blit", "runlock") /\ self[t] # other[t] /\ HoldsSrc(t) /\ ~HoldsDst(t)

\* --------------------------------------------------------------- C18
\* The calls that hold the receiver's lock around their native call, by mode.
ExclusiveOps ==
    {"FillRect", "SetAlpha", "SetColorKey", "SetClipRect", "Lock", "Unlock",
     "Flip", "UpdateRect", "UpdateRects", "Free"}
SharedOps == {"GetClipRect", "DisplayFormat", "DisplayFormatAlpha"}

\* Thread t is in the native call of a call that locks h exclusively, or in
\* shared mode.
ExclusiveNative(t, h) ==
    InNative(t) /\ self[t] = h /\ (op[t] \in ExclusiveOps \/ InBlit(t))
SharedNative(t, h) ==
    /\ InNative(t)
    /\ \/ op[t] \in SharedOps /\ self[t] = h
       \/ InBlit(t) /\ other[t] = h

\* C18: while a thread is in the native call of a call that locks h
\* exclusively, no other thread is in the native call of a call that locks
\* h in either mode.
C18_ExclusiveExcludes ==
    \A t \in Threads, u \in Threads, h \in Allocated :
        t # u /\ ExclusiveNative(t, h)
          => ~ExclusiveNative(u, h) /\ ~SharedNative(u, h)

\* GetClipRect on h and a Blit from h are in their native calls together.
C18_Witness ==
    \E t \in Threads, u \in Threads, h \in Allocated :
        /\ t # u
        /\ SharedNative(t, h) /\ op[t] = "GetClipRect"
        /\ SharedNative(u, h) /\ InBlit(u)

\* --------------------------------------------------------------- C19
\* Thread t stands at a statement that reads or writes
\* currentVideoSurface (GetVideoSurface: between its read and its unlock).
AccessesSlot(t) ==
    \/ At(t, "SetVideoMode", "native")
    \/ At(t, "SetVideoMode", "ret")
    \/ At(t, "GetVideoSurface", "gunlock")
    \/ At(t, "Free", "native")
    \/ At(t, "Quit", "destroy")
    \/ At(t, "Blit", "check")
    \/ At(t, "poll", "native")

\* C19: a thread that reads or writes currentVideoSurface holds GlobalMutex.
C19_SlotUnderGlobalMutex ==
    \A t \in Threads : AccessesSlot(t) => gm = t

\* --------------------------------------------------------------- C20
\* Thread t stands at a statement that writes the fields of Surface h:
\* destroy in Free and in Quit, reload in poll.
WritesShadow(t, h) ==
    \/ At(t, "Free", "native") /\ self[t] = h
    \/ At(t, "Quit", "destroy") /\ cur = h
    \/ At(t, "poll", "native") /\ cur = h

\* C20: a thread that writes the fields of a Surface holds that Surface's
\* lock in exclusive mode.
C20_ShadowUnderSurfaceLock ==
    \A t \in Threads, h \in Allocated : WritesShadow(t, h) => mutex[h].w = t

\* --------------------------------------------------------------- C21
\* C21: Quit's step after taking GlobalMutex destroys the slot's occupant,
\* if there is one, and no other Surface, clears the slot, and enters
\* SDL_Quit; with the slot empty it changes no Surface.  From there until
\* Quit returns the thread holds GlobalMutex and the slot stays nil, so a
\* GetVideoSurface that follows Quit's return finds the slot nil.
C21_QuitOrder ==
    [][ \A t \in Threads :
          op[t] = "Quit" =>
            /\ pc[t] = "destroy" /\ pc'[t] # "destroy"
                 => /\ gm = t /\ gm' = t
                    /\ pc'[t] = "native"
                    /\ cur' = nil
                    /\ cur # nil => surf'[cur].cSurface = nil
                    /\ \A h \in Handles : h # cur => surf'[h] = surf[h]
                    /\ cmem' = cmem
            /\ pc[t] \in {"native", "gunlock"}
                 => gm = t /\ cur = nil /\ cur' = nil /\ surf' = surf
            /\ pc[t] = "glock" => pc'[t] \in {"glock", "destroy"}
      ]_vars

\* Quit is in SDL_Quit, having destroyed the display surface it found in
\* the slot: the Surface is destroyed and its C surface was not freed by Free.
C21_Witness ==
    \E t \in Threads, h \in Allocated :
        At(t, "Quit", "native") /\ Destroyed(h) /\ cmem[h].live

\* --------------------------------------------------------------- C22
\* The C struct the slot's occupant points to, as it is after this step.
OccupantStruct == CSurface(surf[cur].cSurface, cmem'[surf[cur].cSurface].geom)

\* C22: the step of poll that follows SDL_PollEvent runs under GlobalMutex
\* and keeps it; if the event is VIDEORESIZE and the slot is occupied, the
\* step reloads the occupant from its C struct; if not, it changes no
\* Surface; and it never changes a Surface other than the occupant.
C22_PollReloadsUnderGlobalMutex ==
    [][ \A t \in Threads :
          At(t, "poll", "native") /\ pc'[t] # "native" =>
            /\ gm = t /\ gm' = t
            /\ cur' = cur
            /\ loc'[t] = "VIDEORESIZE" /\ cur # nil /\ surf[cur].cSurface # nil
                 => /\ surf'[cur].W = OccupantStruct.w
                    /\ surf'[cur].H = OccupantStruct.h
                    /\ surf'[cur].Pitch = OccupantStruct.pitch
                    /\ surf'[cur].Pixels = OccupantStruct.pixels
                    /\ surf'[cur].Flags = OccupantStruct.flags
                    /\ surf'[cur].Format = OccupantStruct.format
                    /\ surf'[cur].Offset = OccupantStruct.offset
                    /\ surf'[cur].cSurface = surf[cur].cSurface
            /\ loc'[t] # "VIDEORESIZE" \/ cur = nil => surf' = surf
            /\ \A h \in Handles : h # cur => surf'[h] = surf[h]
      ]_vars

\* poll has reloaded a resized display and still holds GlobalMutex.
C22_Witness ==
    \E t \in Threads :
        /\ At(t, "poll", "gunlock") /\ loc[t] = "VIDEORESIZE"
        /\ cur # nil /\ surf[cur].cSurface # nil
        /\ cmem[surf[cur].cSurface].geom = NGeom
        /\ surf[cur].W = CSurface(surf[cur].cSurface, NGeom).w

\* --------------------------------------------------------------- C23
\* C23: whenever no thread holds GlobalMutex, the slot is nil or holds a
\* Surface whose cSurface is not nil; and poll never stands at the nil
\* dereference of a reload.
C23_SlotNeverDestroyed ==
    /\ gm = unlocked => cur = nil \/ surf[cur].cSurface # nil
    /\ \A t \in Threads : ~At(t, "poll", "panic")

\* With GlobalMutex free, the slot holds a display surface that poll has
\* reloaded, after an earlier Surface was destroyed.
C23_Witness ==
    /\ gm = unlocked
    /\ cur # nil /\ surf[cur].cSurface # nil
    /\ surf[cur].W = CSurface(surf[cur].cSurface, NGeom).w
    /\ \E h \in Allocated : Destroyed(h)

\* --------------------------------------------------------------- C24
\* Thread t holds the lock of some Surface, in either mode.
HoldsSurfaceLock(t) ==
    \E h \in Handles : mutex[h].w = t \/ t \in mutex[h].r

\* The calls that take GlobalMutex and then the receiver's lock.
BothLockOps == {"UpdateRect", "UpdateRects", "Flip", "Free"}

\* C24: a thread that requests GlobalMutex holds no Surface's lock; a call
\* that uses both (UpdateRect, UpdateRects, Flip, Free, a Blit that kept
\* GlobalMutex) holds GlobalMutex for as long as it holds a Surface's lock;
\* and a thread that is in no call holds no lock.
C24_LockHierarchy ==
    \A t \in Threads :
        /\ pc[t] = "glock" => ~HoldsSurfaceLock(t)
        /\ (op[t] \in BothLockOps \/ (InBlit(t) /\ glob[t])) /\ HoldsSurfaceLock(t)
             => gm = t
        /\ pc[t] = "idle" => gm # t /\ ~HoldsSurfaceLock(t)

\* UpdateRects is in its native call holding GlobalMutex and the screen's
\* lock while the other thread requests GlobalMutex.
C24_Witness ==
    \E t \in Threads, u \in Threads :
        /\ t # u
        /\ At(t, "UpdateRects", "native") /\ gm = t /\ mutex[self[t]].w = t
        /\ pc[u] = "glock"

\* --------------------------------------------------------------- C25
\* C25: the value SetVideoMode is about to return, the slot as it is at the
\* return statement, is the Surface that this call made by wrap of its own
\* native result (nil for NULL).
C25_SetVideoModeReturnsOwn ==
    \A t \in Threads : At(t, "SetVideoMode", "ret") => cur = loc[t]

====
